---- MODULE Spec2Model ----
(***************************************************************************)
(* Model of src/src/ImageUploader.jsx: the React component that asks the   *)
(* broker for a pre-signed upload URL, PUTs the file, and polls the output *)
(* bucket with HEAD requests until the resized image appears.              *)
(*                                                                         *)
(* Strings that the code parses (object keys) are sequences of one-        *)
(* character strings.  JavaScript null is NULL for keys and URLs, "null"   *)
(* for files, and 0 for the interval handle (setInterval returns a         *)
(* positive integer, and the code tests the handle for truthiness).        *)
(* Every event-loop task (a click handler, the continuation of an await,   *)
(* a timer callback) is one action.  The polling useEffect runs in the     *)
(* same action as the state update that changes lastUploadedKey.           *)
(*                                                                         *)
(* Left out: the ?t=Date.now() cache-buster appended to URLs, the value of *)
(* the hidden file input, console output, and handleDownloadClick.  App    *)
(* renders ImageUploader unconditionally, so the component is not          *)
(* unmounted while the page lives.  The broker, the input bucket and the   *)
(* output bucket are the environment: every response they can give is a    *)
(* choice of Next, and a response may take any time to arrive.             *)
(***************************************************************************)
EXTENDS Integers, Sequences, FiniteSets, TLC

VARIABLES
    selectedFile,        \* useState: the chosen File, or "null"
    uploadStatus,        \* useState: the status message
    isLoading,           \* useState
    resizedImageUrl,     \* useState: URL of the result, or NULL
    originalPreviewUrl,  \* useState: data URL of the preview, or "null"
    lastUploadedKey,     \* useState: key of the uploaded object, or NULL
    quality,             \* useState
    width,               \* useState
    height,              \* useState
    pollingIntervalRef,  \* useRef: handle of the poll timer, 0 when none
    pollingAttemptsRef,  \* useRef: attempts of the running poll
    timers,              \* the browser's active interval timers: [id, url,
                         \* issued], the handle, the publicUrl its callback
                         \* closes over, and the HEAD requests it has issued
    uploads,             \* the handleUpload calls: job -> [pc, file, key], its
                         \* position and its locals while it runs
    nJobs,               \* number of handleUpload calls made so far
    probes,              \* HEAD requests in flight: [poll, n, url]
    readers,             \* FileReaders still reading: file -> how many
    net                  \* requests issued so far by each job: [get, put]

ui      == <<selectedFile, uploadStatus, isLoading, resizedImageUrl,
             originalPreviewUrl, lastUploadedKey>>
params  == <<quality, width, height>>
refs    == <<pollingIntervalRef, pollingAttemptsRef, timers>>
vars    == <<ui, params, refs, uploads, nJobs, probes, readers, net>>

----------------------------------------------------------------------------
(* Bounds of the model *)

MaxJobs == 2

(* HEAD requests the network holds in flight at a time: a tick that would  *)
(* issue one more waits                                                    *)
MaxInFlight == 2

(* maxPollingAttempts is 15 in the source (line 27); the model runs the    *)
(* same comparison with a smaller budget.                                  *)
maxPollingAttempts == 2

----------------------------------------------------------------------------
(* Strings *)

NULL == <<"null">>

Digits == {"0", "1", "2", "3", "4", "5", "6", "7", "8", "9"}

Str_q85   == <<"q", "8", "5", "_", "w", "1", "2", "8", "_", "h", "1", "2", "8">>
Key_png   == Str_q85 \o <<"/", "a", ".", "p", "n", "g">>
Key_bad   == <<"g", "a", "r", "b", "a", "g", "e">>
Key_empty == <<>>

outputFormat == <<"j", "p", "e", "g">>

Files == {"a.png"}

(* the keys the broker may answer with: the response body is used as it    *)
(* comes, whatever string its key field holds                              *)
BrokerKeys == {Key_png, Key_bad, Key_empty}

(* Keys put together from their parts: a parameter prefix of the new or    *)
(* the legacy shape, "/", and a file name that is a base, ".", and an      *)
(* extension.  File names hold no line terminator.                         *)
QTexts == {<<"8", "5">>, <<"1">>}
WTexts == {<<"1", "2", "8">>}
HTexts == {<<"1", "2", "8">>, <<"0">>}

NewPrefixes ==
    {<<"q">> \o q \o <<"_", "w">> \o w \o <<"_", "h">> \o h :
         q \in QTexts, w \in WTexts, h \in HTexts}

LegacyPrefixes == {<<"q", "u", "a", "l", "i", "t", "y">> \o q : q \in QTexts}

Bases == {<<"a">>, <<"a", ".", "b">>}
Exts  == {<<"p", "n", "g">>, <<"g", "i", "f">>, <<"J", "P", "G">>}

FileName(base, ext) == base \o <<".">> \o ext
KeyOf(prefix, name) == prefix \o <<"/">> \o name

NewKeys ==
    {KeyOf(p, FileName(b, e)) : p \in NewPrefixes, b \in Bases, e \in Exts}
LegacyKeys ==
    {KeyOf(p, FileName(b, e)) : p \in LegacyPrefixes, b \in Bases, e \in Exts}

(* keys of neither shape *)
OtherKeys ==
    {Key_bad, KeyOf(<<"q", "8", "5">>, <<"a", ".", "p", "n", "g">>),
     KeyOf(<<"q", "u", "a", "l", "i", "t", "y">>, <<"a", ".", "p", "n", "g">>)}

KeyPool == NewKeys \cup LegacyKeys \cup OtherKeys

----------------------------------------------------------------------------
(* String helpers used by getOutputKey *)

LineTerminators == {"\n", "\r"}

RECURSIVE SkipDigits(_, _)
(* \d+ is greedy: the first index at or after i that holds no digit *)
SkipDigits(s, i) ==
    IF i <= Len(s) /\ s[i] \in Digits THEN SkipDigits(s, i + 1) ELSE i

(* the literal lit occurs in s at index i *)
Lit(s, i, lit) ==
    /\ i + Len(lit) - 1 <= Len(s)
    /\ \A k \in 1..Len(lit) : s[i + k - 1] = lit[k]

RECURSIVE DotStarEnd(_, _)
\* the trailing group (any characters but line terminators) stops before the
\* first line terminator: the index after the match
DotStarEnd(s, i) ==
    IF i <= Len(s) /\ s[i] \notin LineTerminators
    THEN DotStarEnd(s, i + 1) ELSE i

\* an index search that returns the first occurrence
lastIndexOf_first(s, c) ==
    LET hits == {i \in 1..Len(s) : s[i] = c}
    IN  IF hits = {} THEN -1
        ELSE (CHOOSE i \in hits : \A j \in hits : i <= j) - 1

(* String.prototype.lastIndexOf for a single character, 0-based, -1 if none *)
lastIndexOf(s, c) ==
    LET hits == {i \in 1..Len(s) : s[i] = c}
    IN  IF hits = {} THEN -1
        ELSE (CHOOSE i \in hits : \A j \in hits : j <= i) - 1

(* String.prototype.substring(0, e) for an integer e *)
substring0(s, e) ==
    LET n == IF e < 0 THEN 0 ELSE IF e > Len(s) THEN Len(s) ELSE e
    IN  SubSeq(s, 1, n)

LowerOf(c) ==
    CASE c = "J" -> "j" [] c = "P" -> "p" [] c = "E" -> "e" [] c = "G" -> "g"
      [] OTHER -> c

toLowerCase(s) == [i \in 1..Len(s) |-> LowerOf(s[i])]

\* the pattern ^(q\d+_w\d+_h\d+)/ followed by the rest of the line:
\* index of the "/" that ends group 1, 0 if no match
MatchNewPrefix(s) ==
    LET b == SkipDigits(s, 2)
        c == SkipDigits(s, b + 2)
        d == SkipDigits(s, c + 2)
    IN  IF /\ Lit(s, 1, <<"q">>) /\ b > 2
           /\ Lit(s, b, <<"_", "w">>) /\ c > b + 2
           /\ Lit(s, c, <<"_", "h">>) /\ d > c + 2
           /\ Lit(s, d, <<"/">>)
        THEN d ELSE 0

\* the pattern ^(quality\d+)/ followed by the rest of the line:
\* index of the "/" that ends group 1, 0 if no match
MatchOldPrefix(s) ==
    LET b == SkipDigits(s, 8)
    IN  IF /\ Lit(s, 1, <<"q", "u", "a", "l", "i", "t", "y">>) /\ b > 8
           /\ Lit(s, b, <<"/">>)
        THEN b ELSE 0

(* filenamePart.substring(0, filenamePart.lastIndexOf(".")) || filenamePart *)
BaseName(filenamePart) ==
    LET cut == substring0(filenamePart, lastIndexOf(filenamePart, "."))
    IN  IF cut # <<>> THEN cut ELSE filenamePart

\* a derivation that leaves the parameter prefix out of the location
Resized_noPrefix(prefixPart, filenamePart) ==
    <<"r", "e", "s", "i", "z", "e", "d", "-">> \o <<"/">>
        \o BaseName(filenamePart) \o <<".">> \o toLowerCase(outputFormat)

Resized(prefixPart, filenamePart) ==
    <<"r", "e", "s", "i", "z", "e", "d", "-">> \o prefixPart \o <<"/">>
        \o BaseName(filenamePart) \o <<".">> \o toLowerCase(outputFormat)

(* the key does not have one of the two shapes the code recognises *)
Malformed(baseKey) == MatchNewPrefix(baseKey) = 0 /\ MatchOldPrefix(baseKey) = 0

getOutputKey(baseKey) ==
    LET n == MatchNewPrefix(baseKey)
        o == MatchOldPrefix(baseKey)
    IN  IF n # 0
        THEN Resized(SubSeq(baseKey, 1, n - 1),
                     SubSeq(baseKey, n + 1, DotStarEnd(baseKey, n + 1) - 1))
        ELSE IF o # 0
        THEN Resized(SubSeq(baseKey, 1, o - 1),
                     SubSeq(baseKey, o + 1, DotStarEnd(baseKey, o + 1) - 1))
        ELSE <<"r", "e", "s", "i", "z", "e", "d", "-", "u", "n", "k", "n",
               "o", "w", "n", "/">> \o baseKey

(* getOutputKey(lastUploadedKey) for every key the component can be given, *)
(* tabulated so that the derivation is computed once per key               *)
outputKeyOf == [baseKey \in BrokerKeys \cup KeyPool |-> getOutputKey(baseKey)]

(* `https://${outputBucketName}.s3.${region}.amazonaws.com/${outputKey}` *)
publicUrl(outputKey) ==
    <<"https://vyomuchat-image-resizer-output.s3.eu-north-1.amazonaws.com/">>
        \o outputKey

----------------------------------------------------------------------------
(* State after construction *)

Jobs == 1..MaxJobs

NoJob  == [pc |-> "idle", file |-> "null", key |-> NULL]
NoNet  == [get |-> 0, put |-> 0]

Init ==
    /\ selectedFile = "null"
    /\ uploadStatus = ""
    /\ isLoading = FALSE
    /\ resizedImageUrl = NULL
    /\ originalPreviewUrl = "null"
    /\ lastUploadedKey = NULL
    /\ quality = 85
    /\ width = 128
    /\ height = 128
    /\ pollingIntervalRef = 0
    /\ pollingAttemptsRef = 0
    /\ timers = {}
    /\ uploads = [j \in Jobs |-> NoJob]
    /\ nJobs = 0
    /\ probes = {}
    /\ readers = [f \in Files |-> 0]
    /\ net = [j \in Jobs |-> NoNet]

----------------------------------------------------------------------------
(* The poll timer.  ps is the record [ref, attempts, timers] of the two    *)
(* refs and the browser's timer table.                                     *)

PollRefs == [ref |-> pollingIntervalRef, attempts |-> pollingAttemptsRef,
             timers |-> timers]

\* a stopPolling that drops the handle without clearing the timer
clearInterval_forgotten(table, id) == table

\* clearInterval(id)
clearInterval(table, id) == {t \in table : t.id # id}

stopPolling(ps) ==
    IF ps.ref # 0
    THEN [ref |-> 0, attempts |-> 0, timers |-> clearInterval(ps.timers, ps.ref)]
    ELSE ps

\* an effect that starts the new poll with one attempt already counted
useEffectPolling_countsFromOne(ps, oldKey, newKey, id) ==
    IF oldKey = newKey THEN ps
    ELSE LET cleaned == stopPolling(ps)
             stopped == stopPolling(cleaned)
         IN  IF newKey # NULL /\ newKey # <<>>
             THEN [ref |-> id, attempts |-> 1,
                   timers |-> stopped.timers \cup
                       {[id |-> id, url |-> publicUrl(outputKeyOf[newKey]),
                         issued |-> 0]}]
             ELSE stopped

(* The polling useEffect, run when lastUploadedKey changes from oldKey to  *)
(* newKey: the cleanup of the previous run, then the body.  id is the      *)
(* handle setInterval returns.                                             *)
useEffectPolling(ps, oldKey, newKey, id) ==
    IF oldKey = newKey THEN ps
    ELSE LET cleaned == stopPolling(ps)
             stopped == stopPolling(cleaned)
         IN  IF newKey # NULL /\ newKey # <<>>
             THEN [ref |-> id, attempts |-> 0,
                   timers |-> stopped.timers \cup
                       {[id |-> id, url |-> publicUrl(outputKeyOf[newKey]),
                         issued |-> 0]}]
             ELSE stopped

SetRefs(ps) ==
    /\ pollingIntervalRef' = ps.ref
    /\ pollingAttemptsRef' = ps.attempts
    /\ timers' = ps.timers

----------------------------------------------------------------------------
(* What the render shows *)

SelectImageButtonVisible ==
    /\ selectedFile = "null"
    /\ ~isLoading
    /\ resizedImageUrl = NULL
    /\ originalPreviewUrl = "null"

UploadButtonVisible ==
    /\ selectedFile # "null" \/ isLoading \/ resizedImageUrl # NULL
         \/ originalPreviewUrl # "null"
    /\ ~isLoading /\ resizedImageUrl = NULL /\ selectedFile # "null"
    /\ ~(selectedFile = "null" \/ isLoading)

ResultAreaVisible ==
    /\ selectedFile # "null" \/ isLoading \/ resizedImageUrl # NULL
         \/ originalPreviewUrl # "null"
    /\ resizedImageUrl # NULL /\ originalPreviewUrl # "null"

----------------------------------------------------------------------------
(* File selection and preview *)

\* handleFileChange with a file chosen in the picker that the Select Image
\* button opens; the disabled input delivers no event while isLoading.
handleFileChange(f) ==
    /\ SelectImageButtonVisible /\ ~isLoading
    /\ LET ps == useEffectPolling(stopPolling(PollRefs), lastUploadedKey, NULL, 0)
       IN  SetRefs(ps)
    /\ selectedFile' = f
    /\ uploadStatus' = "Selected: " \o f
    /\ resizedImageUrl' = NULL
    /\ lastUploadedKey' = NULL
    /\ isLoading' = FALSE
    /\ originalPreviewUrl' = "null"
    /\ readers' = [readers EXCEPT ![f] = @ + 1]
    /\ UNCHANGED <<params, uploads, nJobs, probes, net>>

\* handleFileChange with an empty file list
handleFileChangeEmpty ==
    /\ SelectImageButtonVisible /\ ~isLoading
    /\ originalPreviewUrl' = "null"
    /\ selectedFile' = "null"
    /\ uploadStatus' = ""
    /\ UNCHANGED <<isLoading, resizedImageUrl, lastUploadedKey, params, refs,
                   uploads, nJobs, probes, readers, net>>

\* reader.onloadend after a successful read
readerLoaded(f) ==
    /\ readers[f] > 0
    /\ readers' = [readers EXCEPT ![f] = @ - 1]
    /\ originalPreviewUrl' = "data:" \o f
    /\ UNCHANGED <<selectedFile, uploadStatus, isLoading, resizedImageUrl,
                   lastUploadedKey, params, refs, uploads, nJobs, probes, net>>

\* reader.onerror, then reader.onloadend with reader.result null
readerFailed(f) ==
    /\ readers[f] > 0
    /\ readers' = [readers EXCEPT ![f] = @ - 1]
    /\ uploadStatus' = "Error generating preview."
    /\ originalPreviewUrl' = "null"
    /\ UNCHANGED <<selectedFile, isLoading, resizedImageUrl, lastUploadedKey,
                   params, refs, uploads, nJobs, probes, net>>

\* onClick of the Resize Another Image button
resizeAnother ==
    /\ ResultAreaVisible
    /\ LET ps == useEffectPolling(stopPolling(PollRefs), lastUploadedKey, NULL, 0)
       IN  SetRefs(ps)
    /\ resizedImageUrl' = NULL
    /\ originalPreviewUrl' = "null"
    /\ uploadStatus' = ""
    /\ lastUploadedKey' = NULL
    /\ selectedFile' = "null"
    /\ isLoading' = FALSE
    /\ UNCHANGED <<params, uploads, nJobs, probes, readers, net>>

----------------------------------------------------------------------------
(* handleUpload: one action per stretch between two awaits *)

\* a catch block that leaves the loading flag set
Caught_stillLoading(message) ==
    /\ uploadStatus' = message
    /\ isLoading' = isLoading
    /\ lastUploadedKey' = NULL
    /\ LET ps == useEffectPolling(stopPolling(PollRefs), lastUploadedKey, NULL, 0)
       IN  SetRefs(ps)

\* the statements of the catch block
Caught(message) ==
    /\ uploadStatus' = message
    /\ isLoading' = FALSE
    /\ lastUploadedKey' = NULL
    /\ LET ps == useEffectPolling(stopPolling(PollRefs), lastUploadedKey, NULL, 0)
       IN  SetRefs(ps)

\* click on Upload & Resize Image, up to the fetch of get-upload-url
handleUpload ==
    /\ UploadButtonVisible
    /\ nJobs < MaxJobs
    /\ LET j  == nJobs + 1
           ps == useEffectPolling(stopPolling(PollRefs), lastUploadedKey, NULL, j)
       IN  /\ nJobs' = j
           /\ uploads' = [uploads EXCEPT ![j] =
                            [pc |-> "broker", file |-> selectedFile, key |-> NULL]]
           /\ net' = [net EXCEPT ![j].get = @ + 1]
           /\ SetRefs(ps)
    /\ isLoading' = TRUE
    /\ resizedImageUrl' = NULL
    /\ uploadStatus' = "Getting upload URL..."
    /\ lastUploadedKey' = NULL
    /\ UNCHANGED <<selectedFile, originalPreviewUrl, params, probes, readers>>

\* a handler that records the key as soon as the broker answers, so that
\* the polling effect runs before the PUT has returned
brokerOk_keyTooEarly(j, key) ==
    /\ uploads[j].pc = "broker"
    /\ uploads' = [uploads EXCEPT ![j].pc = "put", ![j].key = key]
    /\ net' = [net EXCEPT ![j].put = @ + 1]
    /\ uploadStatus' = "Uploading image..."
    /\ lastUploadedKey' = key
    /\ SetRefs(useEffectPolling(PollRefs, lastUploadedKey, key, j))
    /\ UNCHANGED <<selectedFile, isLoading, resizedImageUrl, originalPreviewUrl,
                   params, nJobs, probes, readers>>

\* get-upload-url answered 2xx with {uploadUrl, key}: the PUT is issued
brokerOk(j, key) ==
    /\ uploads[j].pc = "broker"
    /\ uploads' = [uploads EXCEPT ![j].pc = "put", ![j].key = key]
    /\ net' = [net EXCEPT ![j].put = @ + 1]
    /\ uploadStatus' = "Uploading image..."
    /\ UNCHANGED <<selectedFile, isLoading, resizedImageUrl, originalPreviewUrl,
                   lastUploadedKey, params, refs, nJobs, probes, readers>>

\* get-upload-url answered with a non-2xx status, or the fetch rejected
brokerFailed(j, rejected) ==
    /\ uploads[j].pc = "broker"
    /\ uploads' = [uploads EXCEPT ![j] = [NoJob EXCEPT !.pc = "brokerFailed"]]
    /\ Caught(IF rejected THEN "Error: Failed to fetch"
              ELSE "Error: Failed to get upload URL")
    /\ UNCHANGED <<selectedFile, resizedImageUrl, originalPreviewUrl, params,
                   nJobs, probes, readers, net>>

\* the PUT answered 2xx
putOk(j) ==
    /\ uploads[j].pc = "put"
    /\ uploads' = [uploads EXCEPT ![j] = [NoJob EXCEPT !.pc = "uploaded"]]
    /\ uploadStatus' = "Upload successful! Waiting for resized version..."
    /\ lastUploadedKey' = uploads[j].key
    /\ selectedFile' = "null"
    /\ LET ps == useEffectPolling(PollRefs, lastUploadedKey, uploads[j].key, j)
       IN  SetRefs(ps)
    /\ UNCHANGED <<isLoading, resizedImageUrl, originalPreviewUrl, params,
                   nJobs, probes, readers, net>>

\* a failure branch that also drops the selected file
putFailed_clearsFile(j, rejected) ==
    /\ uploads[j].pc = "put"
    /\ uploads' = [uploads EXCEPT ![j] = [NoJob EXCEPT !.pc = "putFailed"]]
    /\ Caught(IF rejected THEN "Error: Failed to fetch"
              ELSE "Error: Upload failed")
    /\ selectedFile' = "null"
    /\ UNCHANGED <<resizedImageUrl, originalPreviewUrl, params,
                   nJobs, probes, readers, net>>

\* the PUT answered with a non-2xx status, or the fetch rejected
putFailed(j, rejected) ==
    /\ uploads[j].pc = "put"
    /\ uploads' = [uploads EXCEPT ![j] = [NoJob EXCEPT !.pc = "putFailed"]]
    /\ Caught(IF rejected THEN "Error: Failed to fetch"
              ELSE "Error: Upload failed")
    /\ UNCHANGED <<selectedFile, resizedImageUrl, originalPreviewUrl, params,
                   nJobs, probes, readers, net>>

----------------------------------------------------------------------------
(* Polling: the setInterval callback, one action per stretch between awaits *)

\* the budget test written with >= : the last probe is never issued
BudgetExceeded_offByOne(attempts) == attempts >= maxPollingAttempts

\* pollingAttemptsRef.current > maxPollingAttempts
BudgetExceeded(attempts) == attempts > maxPollingAttempts

\* the statuses a HEAD probe can end with: 2xx, 403 or 404, any other
\* status, or a rejected fetch
ProbeResults == {"ok", "notReady", "other", "rejected"}

\* a callback that takes every answer other than 403/404 for the image
Classify_anyAnswer(result) ==
    IF result \in {"ok", "other"} THEN "found" ELSE "retry"

\* the branch of the callback a probe result takes
Classify(result) == IF result = "ok" THEN "found" ELSE "retry"

\* a tick of the interval timer t, up to the HEAD fetch
tick(t) ==
    /\ t \in timers
    /\ LET n == pollingAttemptsRef + 1
       IN  IF BudgetExceeded(n)
           THEN /\ uploadStatus' = "Image processing timed out. Please try again."
                /\ isLoading' = FALSE
                /\ SetRefs(stopPolling([PollRefs EXCEPT !.attempts = n]))
                /\ UNCHANGED probes
           ELSE /\ Cardinality(probes) < MaxInFlight
                /\ pollingAttemptsRef' = n
                /\ probes' = probes \cup {[poll |-> t.id, n |-> n, url |-> t.url]}
                /\ timers' = (timers \ {t}) \cup {[t EXCEPT !.issued = @ + 1]}
                /\ UNCHANGED <<uploadStatus, isLoading, pollingIntervalRef>>
    /\ UNCHANGED <<selectedFile, resizedImageUrl, originalPreviewUrl,
                   lastUploadedKey, params, uploads, nJobs, readers, net>>

\* the HEAD probe p settles with result
headResponse(p, result) ==
    /\ p \in probes
    /\ probes' = probes \ {p}
    /\ IF Classify(result) = "found"
       THEN LET ps == stopPolling(PollRefs)
            IN  /\ SetRefs(ps)
                /\ resizedImageUrl' = p.url
                /\ uploadStatus' = "Resized image loaded."
                /\ isLoading' = FALSE
       ELSE UNCHANGED <<refs, resizedImageUrl, uploadStatus, isLoading>>
    /\ UNCHANGED <<selectedFile, originalPreviewUrl, lastUploadedKey, params,
                   uploads, nJobs, readers, net>>

----------------------------------------------------------------------------
(* The specification *)

Next ==
    \/ \E f \in Files : handleFileChange(f)
    \/ handleFileChangeEmpty
    \/ \E f \in Files : readerLoaded(f)
    \/ \E f \in Files : readerFailed(f)
    \/ resizeAnother
    \/ handleUpload
    \/ \E j \in Jobs, key \in BrokerKeys : brokerOk(j, key)
    \/ \E j \in Jobs, rejected \in BOOLEAN : brokerFailed(j, rejected)
    \/ \E j \in Jobs : putOk(j)
    \/ \E j \in Jobs, rejected \in BOOLEAN : putFailed(j, rejected)
    \/ \E t \in timers : tick(t)
    \/ \E p \in probes, result \in ProbeResults : headResponse(p, result)

Spec == Init /\ [][Next]_vars

----------------------------------------------------------------------------
(* Properties *)

TimerOf(j) == {t \in timers : t.id = j}
ProbesOf(j) == {p \in probes : p.poll = j}

\* the job is RequestingLocation, Uploading or AwaitingResult
InProgress(j) ==
    \/ uploads[j].pc \in {"broker", "put"}
    \/ uploads[j].pc = "uploaded" /\ TimerOf(j) # {}

\* C1: for every job, a PUT is issued only after the broker answered with
\* success, and a poll timer or a HEAD probe of the job exists only after the
\* PUT of that job returned a success status.
C1_Ordering ==
    \A j \in Jobs :
        /\ net[j].put > 0 => /\ net[j].get > 0
                             /\ uploads[j].pc \in {"put", "putFailed", "uploaded"}
        /\ (TimerOf(j) # {} \/ ProbesOf(j) # {})
               => uploads[j].pc = "uploaded" /\ net[j].put > 0

\* a probe of a job is in flight after its broker request and its PUT
C1_Witness ==
    \E p \in probes : net[p.poll].get = 1 /\ net[p.poll].put = 1

\* the tick of timer t that finds the attempt budget used up
tickExhausted(t) == BudgetExceeded(pollingAttemptsRef + 1) /\ tick(t)

\* C2: a poll never issues more than maxPollingAttempts probes; the tick
\* that ends it with the timeout outcome comes after exactly
\* maxPollingAttempts probes, and leaves no timer that could tick again.
C2_ExactBudget ==
    /\ [](/\ \A t \in timers : t.issued <= maxPollingAttempts
          /\ \A p \in probes : p.n <= maxPollingAttempts)
    /\ [][\A t \in timers : tickExhausted(t) =>
             /\ t.issued = maxPollingAttempts
             /\ timers' = {} /\ pollingIntervalRef' = 0
             /\ uploadStatus' = "Image processing timed out. Please try again."]_vars

\* a poll has timed out after its full budget of probes
C2_Witness ==
    /\ uploadStatus = "Image processing timed out. Please try again."
    /\ timers = {} /\ pollingAttemptsRef = 0
    /\ ~isLoading

\* C3: when probe k of the running poll finds the artifact, no probe k+1 of
\* that poll has been issued.
C3_NoProbeAfterFound ==
    [][\A p \in probes :
          (p.poll = pollingIntervalRef /\ headResponse(p, "ok"))
              => \A t \in TimerOf(p.poll) : t.issued = p.n]_vars

\* C4: a probe response of a poll that has been stopped writes none of
\* resizedImageUrl, uploadStatus and isLoading, and a stopped poll's timer
\* does not tick.
C4_NoGhostCompletion ==
    [][/\ \A p \in probes : \A r \in ProbeResults :
              (p.poll # pollingIntervalRef /\ headResponse(p, r))
                  => UNCHANGED <<resizedImageUrl, uploadStatus, isLoading>>
       /\ \A t \in timers : tick(t) => t.id = pollingIntervalRef]_vars

\* C5: at most one poll timer is active, and it is the one the ref holds.
C5_OneTimer ==
    /\ Cardinality(timers) <= 1
    /\ \A t \in timers : t.id = pollingIntervalRef
    /\ pollingIntervalRef # 0 => TimerOf(pollingIntervalRef) # {}

\* the timer of a second poll is installed, that of the first is gone
C5_Witness ==
    /\ uploads[1].pc = "uploaded"
    /\ \E t \in timers : t.id = 2

\* C6: while the latest job is running or its result is shown, a result
\* reference is the location derived from the key the broker returned for
\* that job.
C6_OwnResultOnly ==
    \A j \in Jobs :
        (j = nJobs /\ resizedImageUrl # NULL
           /\ (uploads[j].pc \in {"broker", "put"} \/ lastUploadedKey # NULL))
        => resizedImageUrl = publicUrl(getOutputKey(lastUploadedKey))

\* C7: while a job is RequestingLocation, Uploading or AwaitingResult, a
\* submit is not accepted.
C7_NoSubmitWhileBusy ==
    (\E j \in Jobs : InProgress(j)) => ~UploadButtonVisible

\* C8: a probe that does not find the artifact leaves the timer, the attempt
\* counter and the job state as they are.
C8_LenientProbe ==
    [][\A p \in probes : \A r \in ProbeResults \ {"ok"} :
          headResponse(p, r)
              => UNCHANGED <<timers, pollingIntervalRef, pollingAttemptsRef,
                             isLoading, uploadStatus, resizedImageUrl,
                             lastUploadedKey>>]_vars

\* a probe of the running poll was answered and the poll goes on
C8_Witness ==
    \E t \in timers :
        /\ t.issued > 0 /\ ProbesOf(t.id) = {}
        /\ isLoading /\ pollingAttemptsRef > 0

\* the step in which handleUpload of job j reaches its catch block
Fails(j) ==
    \/ \E rejected \in BOOLEAN : brokerFailed(j, rejected)
    \/ \E rejected \in BOOLEAN : putFailed(j, rejected)

\* C9: a job issues at most one broker request and at most one PUT, no PUT
\* after a failed broker request, and after either failure no timer and no
\* probe; the failing step sets isLoading to false and lastUploadedKey to null.
C9_FailureIsTerminal ==
    /\ [](\A j \in Jobs :
            /\ net[j].get <= 1 /\ net[j].put <= 1
            /\ uploads[j].pc = "brokerFailed" => net[j].put = 0
            /\ uploads[j].pc \in {"brokerFailed", "putFailed"}
                  => TimerOf(j) = {} /\ ProbesOf(j) = {})
    /\ [][\A j \in Jobs : Fails(j) =>
             /\ isLoading' = FALSE /\ lastUploadedKey' = NULL
             /\ uploads'[j].pc \in {"brokerFailed", "putFailed"}]_vars

\* a job whose PUT failed
C9_Witness ==
    \E j \in Jobs : uploads[j].pc = "putFailed" /\ net[j].put = 1 /\ ~isLoading

\* C10: no probe is issued for a location made from a key of neither shape.
C10_NoProbeForMalformedKey ==
    \A k \in BrokerKeys :
        Malformed(k) => \A p \in probes : p.url # publicUrl(getOutputKey(k))

\* the status messages that report a failure of the job
ErrorStatus(status) ==
    status \in {"Error: Failed to fetch", "Error: Failed to get upload URL",
                "Error: Upload failed",
                "Image processing timed out. Please try again."}

\* C11: each failure path of a job sets an error status in the step that
\* meets the failure: a failed broker request, a failed PUT, a poll that
\* used up its budget, and a key of neither shape when the poll is set up.
C11_EveryFailureReported ==
    [][/\ \A j \in Jobs : Fails(j) => ErrorStatus(uploadStatus')
       /\ \A t \in timers : tickExhausted(t) => ErrorStatus(uploadStatus')
       /\ \A j \in Jobs : (Malformed(uploads[j].key) /\ putOk(j))
                              => ErrorStatus(uploadStatus')]_vars

\* nothing is pending: no handleUpload is suspended, no timer, no probe and
\* no FileReader is outstanding
Quiescent ==
    /\ \A j \in Jobs : uploads[j].pc \notin {"broker", "put"}
    /\ timers = {} /\ probes = {}
    /\ \A f \in Files : readers[f] = 0

\* C12: once the latest job has ended and nothing is pending, the render
\* offers a control to go on with: Select Image, Upload & Resize Image, or
\* the result area with Resize Another Image.
C12_ResetAvailable ==
    (nJobs > 0 /\ Quiescent /\ ~isLoading)
        => SelectImageButtonVisible \/ UploadButtonVisible \/ ResultAreaVisible

\* C13: when a probe of the running poll finds the image and no preview is
\* still being read, the result area with the resized image and the enabled
\* download button is rendered.
C13_ResultShown ==
    [][\A p \in probes :
          (/\ p.poll = pollingIntervalRef
           /\ \A f \in Files : readers[f] = 0
           /\ headResponse(p, "ok"))
              => ResultAreaVisible' /\ ~isLoading'
                   /\ resizedImageUrl' = p.url]_vars


\* C19: the attempt counter of a poll counts the probes of that poll and
\* nothing else: it is 0 when the poll starts, whatever the polls before it
\* did, its probes are numbered from 1, and it is 0 again when no poll runs.
C19_FreshCounter ==
    /\ \A t \in timers :
           /\ pollingAttemptsRef = t.issued
           /\ t.issued <= maxPollingAttempts
           /\ \A p \in probes : p.poll = t.id => p.n \in 1..t.issued
    /\ timers = {} => pollingAttemptsRef = 0

\* the poll of the second job has just started, at 0, while the last probe
\* of the first job's exhausted poll is still in flight
C19_Witness ==
    /\ \E t \in timers : t.id = 2 /\ t.issued = 0 /\ pollingAttemptsRef = 0
    /\ \E p \in probes : p.poll = 1 /\ p.n = maxPollingAttempts

----------------------------------------------------------------------------
(* Progress.  Every fetch settles (resolves or rejects) and the interval   *)
(* timer keeps firing: weak fairness on the answers of each request and    *)
(* on the ticks.  Clicks and file choices are the user's and get none.     *)

brokerAnswers ==
    \/ \E j \in Jobs, key \in BrokerKeys : brokerOk(j, key)
    \/ \E j \in Jobs, rejected \in BOOLEAN : brokerFailed(j, rejected)

putAnswers ==
    \/ \E j \in Jobs : putOk(j)
    \/ \E j \in Jobs, rejected \in BOOLEAN : putFailed(j, rejected)

headAnswers == \E p \in probes, result \in ProbeResults : headResponse(p, result)

timerFires == \E t \in timers : tick(t)

FairSpec ==
    /\ Spec
    /\ WF_vars(brokerAnswers) /\ WF_vars(putAnswers)
    /\ WF_vars(headAnswers) /\ WF_vars(timerFires)

\* C14: with every request settling and the timer ticking, a job that is
\* RequestingLocation, Uploading or AwaitingResult eventually leaves these
\* states, and a set loading flag is eventually cleared.
C14_Terminates ==
    /\ \A j \in Jobs : InProgress(j) ~> ~InProgress(j)
    /\ isLoading ~> ~isLoading

----------------------------------------------------------------------------
(* The resize parameters.  A JavaScript value is a record: a string holds  *)
(* its characters, a number is NaN or an integer.                          *)

Str(chars) == [type |-> "string", str |-> chars]
Num(n)     == [type |-> "number", nan |-> FALSE, v |-> n]
NaN        == [type |-> "number", nan |-> TRUE, v |-> 0]

DigitChars == <<"0", "1", "2", "3", "4", "5", "6", "7", "8", "9">>

DigitValue(c) == (CHOOSE i \in 1..10 : DigitChars[i] = c) - 1

RECURSIVE DecimalValue(_)
DecimalValue(chars) ==
    IF chars = <<>> THEN 0
    ELSE 10 * DecimalValue(SubSeq(chars, 1, Len(chars) - 1))
           + DigitValue(chars[Len(chars)])

IsDecimal(chars) == chars # <<>> /\ \A i \in 1..Len(chars) : chars[i] \in Digits

(* StringToNumber: the empty string is 0, an optionally signed run of      *)
(* digits is its value, anything else is NaN                               *)
StringToNumber(chars) ==
    IF chars = <<>> THEN Num(0)
    ELSE IF IsDecimal(chars) THEN Num(DecimalValue(chars))
    ELSE IF chars[1] \in {"-", "+"} /\ IsDecimal(Tail(chars))
    THEN Num(IF chars[1] = "-" THEN 0 - DecimalValue(Tail(chars))
             ELSE DecimalValue(Tail(chars)))
    ELSE NaN

Number(value) ==
    IF value.type = "number" THEN value ELSE StringToNumber(value.str)

isNaN(x) == x.nan

Math_max(a, b) ==
    IF a.nan \/ b.nan THEN NaN ELSE IF a.v >= b.v THEN a ELSE b

Math_min(a, b) ==
    IF a.nan \/ b.nan THEN NaN ELSE IF a.v <= b.v THEN a ELSE b

\* a handler that clamps from below only
handleQualityChange_noUpperClamp(newQuality) ==
    LET numQuality == Math_max(Num(1), Number(newQuality))
    IN  IF isNaN(numQuality) THEN 85 ELSE numQuality.v

\* handleQualityChange: the value it passes to setQuality
handleQualityChange(newQuality) ==
    LET numQuality == Math_max(Num(1), Math_min(Num(100), Number(newQuality)))
    IN  IF isNaN(numQuality) THEN 85 ELSE numQuality.v

\* handleDimensionChange: the value it passes to setWidth or setHeight
handleDimensionChange(value) ==
    LET numValue == Math_max(Num(1), Number(value))
    IN  IF isNaN(numValue) \/ (~numValue.nan /\ numValue.v = 0)
        THEN 128 ELSE numValue.v

(* the texts typed into the number inputs *)
InputTexts ==
    { <<>>, <<"0">>, <<"1">>, <<"7">>, <<"1", "0", "0">>, <<"1", "0", "1">>,
      <<"-", "5">>, <<"-">>, <<"a", "b", "c">> }

(* the quality and dimension controls are rendered *)
ControlsVisible == UploadButtonVisible

qualityInput(chars) ==
    /\ ControlsVisible /\ ~isLoading
    /\ quality' = handleQualityChange(Str(chars))
    /\ UNCHANGED <<ui, width, height, refs, uploads, nJobs, probes, readers, net>>

incrementQuality ==
    /\ ControlsVisible /\ ~(isLoading \/ quality >= 100)
    /\ quality' = handleQualityChange(Num(quality + 1))
    /\ UNCHANGED <<ui, width, height, refs, uploads, nJobs, probes, readers, net>>

decrementQuality ==
    /\ ControlsVisible /\ ~(isLoading \/ quality <= 1)
    /\ quality' = handleQualityChange(Num(quality - 1))
    /\ UNCHANGED <<ui, width, height, refs, uploads, nJobs, probes, readers, net>>

widthInput(chars) ==
    /\ ControlsVisible /\ ~isLoading
    /\ width' = handleDimensionChange(Str(chars))
    /\ UNCHANGED <<ui, quality, height, refs, uploads, nJobs, probes, readers, net>>

heightInput(chars) ==
    /\ ControlsVisible /\ ~isLoading
    /\ height' = handleDimensionChange(Str(chars))
    /\ UNCHANGED <<ui, quality, width, refs, uploads, nJobs, probes, readers, net>>

(* the parameters handleUpload writes into the query of get-upload-url *)
apiUrlQuery == [quality |-> quality, width |-> width, height |-> height]

(* The component with its parameter controls, and a broker that refuses,   *)
(* so that the controls come back and the next submit can follow.          *)
NextParams ==
    \/ \E f \in Files : handleFileChange(f)
    \/ \E chars \in InputTexts : qualityInput(chars)
    \/ incrementQuality
    \/ decrementQuality
    \/ \E chars \in InputTexts : widthInput(chars)
    \/ \E chars \in InputTexts : heightInput(chars)
    \/ handleUpload
    \/ \E j \in Jobs, rejected \in BOOLEAN : brokerFailed(j, rejected)

SpecParams == Init /\ [][NextParams]_vars

\* C15: whatever edits, increments and decrements came before, the query a
\* submit sends has quality in 1..100, width >= 1 and height >= 1; the
\* decrement handler at quality 1 and the increment handler at quality 100
\* give the quality back unchanged.
C15_ParamsInRange ==
    /\ apiUrlQuery.quality \in 1..100
    /\ apiUrlQuery.width >= 1
    /\ apiUrlQuery.height >= 1
    /\ quality = 1 => handleQualityChange(Num(quality - 1)) = quality
    /\ quality = 100 => handleQualityChange(Num(quality + 1)) = quality

\* a submit is on its way with the quality at an end of its range and with
\* both dimensions edited
C15_Witness ==
    /\ \E j \in Jobs : uploads[j].pc = "broker"
    /\ apiUrlQuery.quality \in {1, 100}
    /\ apiUrlQuery.width = 1 /\ apiUrlQuery.height = 101

\* C16: a dimension input that parses to zero or NaN sets the dimension to
\* 128, one below 1 that is not zero sets it to 1.
C16_DimensionFallback ==
    [][\A chars \in InputTexts :
          LET x == StringToNumber(chars)
              asked == IF x.nan \/ x.v = 0 THEN 128
                       ELSE IF x.v < 1 THEN 1 ELSE x.v
          IN  /\ widthInput(chars) => width' = asked
              /\ heightInput(chars) => height' = asked]_vars

----------------------------------------------------------------------------
(* The derivation of the output location, over the keys of KeyPool: the    *)
(* component with a broker that answers with any of them.  A refused PUT   *)
(* brings the upload button back for the next key.                         *)

NextKeys ==
    \/ \E f \in Files : handleFileChange(f)
    \/ handleUpload
    \/ \E j \in Jobs, key \in KeyPool : brokerOk(j, key)
    \/ \E j \in Jobs : putOk(j)
    \/ \E j \in Jobs, rejected \in BOOLEAN : putFailed(j, rejected)

SpecKeys == Init /\ [][NextKeys]_vars

Location(prefix, base) ==
    publicUrl(<<"r", "e", "s", "i", "z", "e", "d", "-">> \o prefix \o <<"/">>
                  \o base \o <<".", "j", "p", "e", "g">>)

\* C17: for a key of the new shape, prefix/base.ext, the location the poll
\* is started with is resized-prefix/base.jpeg: the prefix unchanged, the
\* trailing extension replaced.
C17_NewShapeLocation ==
    \A t \in timers :
        \A p \in NewPrefixes, b \in Bases, e \in Exts :
            lastUploadedKey = KeyOf(p, FileName(b, e)) => t.url = Location(p, b)

\* the poll for q85_w128_h128/a.b.png runs on resized-q85_w128_h128/a.b.jpeg
C17_Witness ==
    /\ lastUploadedKey = KeyOf(Str_q85, <<"a", ".", "b", ".", "p", "n", "g">>)
    /\ \E t \in timers :
           t.url = publicUrl(<<"r", "e", "s", "i", "z", "e", "d", "-">>
                       \o Str_q85 \o <<"/", "a", ".", "b", ".", "j", "p", "e", "g">>)

\* C18: a key of the legacy or of the new shape yields a location, and a
\* key of neither shape yields none.
C18_BothShapesOnly ==
    /\ \A p \in NewPrefixes \cup LegacyPrefixes, b \in Bases, e \in Exts :
           lastUploadedKey = KeyOf(p, FileName(b, e))
               => \E t \in timers : t.url = Location(p, b)
    /\ lastUploadedKey \in OtherKeys => timers = {}

\* C20: two different keys of a recognised shape never derive the same
\* location.
C20_NoCollision ==
    \A t \in timers :
        lastUploadedKey \in NewKeys \cup LegacyKeys
            => \A k \in (NewKeys \cup LegacyKeys) \ {lastUploadedKey} :
                   t.url # publicUrl(outputKeyOf[k])

\* C20, as the code has it: two different keys of a recognised shape derive
\* the same location only if they have the same prefix and file names that
\* differ in nothing but the extension after the last dot.
C20_CollisionOnlyByExtension ==
    \A t \in timers :
        lastUploadedKey \in NewKeys \cup LegacyKeys
            => \A k \in (NewKeys \cup LegacyKeys) \ {lastUploadedKey} :
                   t.url = publicUrl(outputKeyOf[k])
                       => \E p \in NewPrefixes \cup LegacyPrefixes, b \in Bases,
                             e1 \in Exts, e2 \in Exts :
                               /\ lastUploadedKey = KeyOf(p, FileName(b, e1))
                               /\ k = KeyOf(p, FileName(b, e2))

\* the poll for q85_w128_h128/a.png runs on the location that
\* q85_w128_h128/a.gif derives as well
C20_Witness ==
    /\ lastUploadedKey = Key_png
    /\ \E t \in timers :
           t.url = publicUrl(outputKeyOf[KeyOf(Str_q85, <<"a", ".", "g", "i", "f">>)])

----------------------------------------------------------------------------
\* C21: the step that handles a failed broker request or a failed PUT sets
\* an error status, clears isLoading and lastUploadedKey, and leaves the
\* selected file, the preview, the result URL and the three parameters as
\* they were; with a file selected and no result shown, the upload button
\* is there again after the step.
C21_FailureFrame ==
    [][\A j \in Jobs, rejected \in BOOLEAN :
          (brokerFailed(j, rejected) \/ putFailed(j, rejected))
              => /\ ErrorStatus(uploadStatus')
                 /\ ~isLoading'
                 /\ lastUploadedKey' = NULL
                 /\ selectedFile' = selectedFile
                 /\ originalPreviewUrl' = originalPreviewUrl
                 /\ resizedImageUrl' = resizedImageUrl
                 /\ params' = params
                 /\ (selectedFile # "null" /\ resizedImageUrl = NULL)
                        => UploadButtonVisible']_vars

\* the broker has refused a job, and the file, with its preview loaded, can
\* be submitted again
C21_Witness ==
    /\ \E j \in Jobs : uploads[j].pc = "brokerFailed"
    /\ ErrorStatus(uploadStatus)
    /\ selectedFile # "null" /\ originalPreviewUrl # "null"
    /\ UploadButtonVisible

\* C22: while a poll timer is live, the job is shown as in progress:
\* isLoading is set and no result URL is set.
C22_PollMeansLoading ==
    (pollingIntervalRef # 0 /\ \E t \in timers : t.id = pollingIntervalRef)
        => isLoading /\ resizedImageUrl = NULL

----------------------------------------------------------------------------
(* handleUpload called while no file is selected.  The upload button is    *)
(* rendered only with a file selected, so Next has no such step; here the  *)
(* handler is called in any state the component reaches without a file.    *)

\* a no-file branch that stops the poll before it returns
handleUploadNoFile_stopsPolling ==
    /\ selectedFile = "null"
    /\ uploadStatus' = "Please select a file first."
    /\ SetRefs(stopPolling(PollRefs))
    /\ UNCHANGED <<selectedFile, isLoading, resizedImageUrl, originalPreviewUrl,
                   lastUploadedKey, params, uploads, nJobs, probes,
                   readers, net>>

\* handleUpload, the branch taken when selectedFile is null
handleUploadNoFile ==
    /\ selectedFile = "null"
    /\ uploadStatus' = "Please select a file first."
    /\ UNCHANGED <<selectedFile, isLoading, resizedImageUrl, originalPreviewUrl,
                   lastUploadedKey, params, refs, uploads, nJobs, probes,
                   readers, net>>

NextSubmit ==
    \/ \E f \in Files : handleFileChange(f)
    \/ \E f \in Files : readerLoaded(f)
    \/ handleUpload
    \/ handleUploadNoFile
    \/ \E j \in Jobs : brokerOk(j, Key_png)
    \/ \E j \in Jobs : putOk(j)
    \/ \E t \in timers : tick(t)
    \/ \E p \in probes, result \in ProbeResults : headResponse(p, result)

SpecSubmit == Init /\ [][NextSubmit]_vars

\* C23: a submit with no file selected sets the status message and nothing
\* else: no request of any kind is issued, isLoading is not set, and the
\* poll, the result and the key are as they were.
C23_NoFileRejected ==
    [][handleUploadNoFile
          => /\ uploadStatus' = "Please select a file first."
             /\ net' = net /\ nJobs' = nJobs /\ uploads' = uploads
             /\ probes' = probes
             /\ isLoading' = isLoading
             /\ refs' = refs
             /\ resizedImageUrl' = resizedImageUrl
             /\ lastUploadedKey' = lastUploadedKey]_vars

\* the submit was rejected while a poll was running, and the poll runs on
C23_Witness ==
    /\ uploadStatus = "Please select a file first."
    /\ isLoading /\ lastUploadedKey = Key_png
    /\ \E t \in timers : t.id = pollingIntervalRef /\ t.issued > 0

====
